---- MODULE Spec2Model ----
(***************************************************************************)
(* A model of lib/pynput/_util/win32.py: MessageLoop, SystemHook and the   *)
(* run/stop protocol of ListenerMixin.                                     *)
(*                                                                         *)
(* Four specifications share the variables:                                *)
(*   Spec      the listener: one thread executing ListenerMixin._run,      *)
(*             threads calling stop and the OS invoking the hook callback; *)
(*   SpecPost  the listener with an external thread posting to its loop;   *)
(*   SpecLive  the listener with weak fairness on the steps of the         *)
(*             program's own threads (never on the environment);           *)
(*   SpecHook  SystemHook used as a context manager by any thread, and the *)
(*             OS invoking SystemHook._handler.                            *)
(***************************************************************************)
EXTENDS Integers, Sequences, FiniteSets, TLC

\* ------------------------------------------------------------ bounds
\* stop calls made in one behaviour (over all stopping threads)
MaxStops == 2
\* messages posted by the external posting thread (p1, p2, p3)
MaxPosts == 3
\* input events the OS delivers to the hook callback in one behaviour
MaxEvents == 2
\* start calls and iteration attempts a client makes on one MessageLoop
MaxStarts == 2
MaxIters == 2
\* the highest scan code (255 in the program)
MaxScan == 3

\* ------------------------------------------------------------ program constants
\* MessageLoop.WM_STOP = 0x0401
WM_STOP == 1025
\* ListenerMixin._WM_PROCESS = 0x410
WM_PROCESS == 1040
\* a message id that is neither of them nor a notification
WM_OTHER == WM_PROCESS + 1
\* ListenerMixin._WM_NOTIFICATIONS: the list a subclass fills; one id stands
\* for its members
WM_NOTIFY == WM_PROCESS + 2
WM_NOTIFICATIONS == {WM_NOTIFY}

\* Python's None, for the fields that hold a thread id, a hook or a handle
None == "None"

\* ------------------------------------------------------------ threads and objects
\* the thread that executes ListenerMixin._run
RunThread == "t1"
\* the threads that can own hooks (threading.current_thread().ident)
Threads == {"t1", "t2"}
\* the threads that call stop
Stoppers == {"s1", "s2"}
\* SystemHook objects; the listener's `with SystemHook(...)` creates "h1"
Hooks == {"h1", "h2", "h3"}
RunHook == "h1"

VARIABLES
    client,      \* "listener": the owner runs _run; "bare": it only constructs a MessageLoop
    suppress,    \* the listener's suppress configuration (self.suppress)
    rpc,         \* position of the run thread in _run / __iter__
    loopExists,  \* self._message_loop has been assigned
    threadid,    \* MessageLoop._threadid
    loopThread,  \* MessageLoop.thread
    event,       \* MessageLoop._event is set
    queueCreated,\* the OS has created the run thread's message queue
    queue,       \* the run thread's posted-message queue
    cur,         \* msg: the message GetMessage retrieved, until the loop body is done with it
    ended,       \* history: how the iteration ended ("no" while it has not)
    running,     \* AbstractListener.running
    pending,     \* an exception is propagating out of the loop body
    spc,         \* position of each stopping thread
    stops,       \* stop calls made so far
    early,       \* stoppers whose current call reached the wait before the event was set
    stopPosts,   \* WM_STOP messages handed to PostThreadMessage so far
    sent,        \* history: messages the posting thread posted to the started loop
    posterRaised,\* the posting thread's last post raised
    nposts,      \* posts attempted by the posting thread
    yielded,     \* history: messages the iteration yielded
    nevents,     \* input events delivered to the hook callback
    starts,      \* start calls made on the loop by a client using it directly
    iters,       \* iteration attempts made on the loop by such a client
    callResult,  \* how that client's last start or iteration call began: "ok" or "error"
    dlog,        \* history: one record per execution of the loop body of _run
    elog,        \* history: one record per event ListenerMixin._handler handled
    runResult,   \* how _run ended: "none" while it has not, "returned" or "raised"
    osLayout,    \* the keyboard layout active in the OS (GetKeyboardLayout)
    held,        \* the modifiers held right now (GetAsyncKeyState), <<shift, ctrl, alt>>
    deadPending, \* the OS's pending dead key of the building thread ("" when none)
    layout,      \* KeyTranslator._layout
    layoutData,  \* KeyTranslator._layout_data
    upd,         \* update_layout in progress: its position and the tuple it generated
    trans,       \* __call__ in progress: its position, argument and locals
    builds,      \* history: what each _generate_layout call returned
    lastBuild,   \* history: what the last _generate_layout call did
    cfs,         \* history: the last char_from_scan call and the cache row it read
    HOOKS,       \* SystemHook._HOOKS: thread ident -> SystemHook
    hookHandle,  \* SystemHook._hook of each hook object
    native,      \* hook objects whose native hook is installed in the OS
    enterResult, \* history: how each hook object's __enter__ ended
    enterThread, \* history: the thread that called each hook object's __enter__
    unhooks,     \* history: UnhookWindowsHookEx calls per hook object
    released,    \* history: registry removals per hook object
    withStack,   \* SystemHook `with` blocks active on each thread (SpecHook)
    exited,      \* history: how the `with` block of each hook object ended
    hlog         \* history: one record per hook callback invocation

cfgv == <<client, suppress>>
loopv == <<loopExists, threadid, loopThread, event, queueCreated>>
stopv == <<spc, stops, early, stopPosts>>
postv == <<sent, posterRaised, nposts>>
misv == <<starts, iters, callResult>>
histv == <<dlog, elog, runResult>>
keyv == <<osLayout, held, deadPending, layout, layoutData, upd, trans, builds,
          lastBuild, cfs>>
lvars == <<cfgv, rpc, loopv, queue, cur, ended, running, pending, stopv,
           postv, yielded, nevents, misv, histv, keyv>>
hvars == <<HOOKS, hookHandle, native, enterResult, enterThread, unhooks,
           released, withStack, exited, hlog>>
vars == <<lvars, hvars>>

\* ------------------------------------------------------------ messages
Msg(m, w, l) == [message |-> m, wParam |-> w, lParam |-> l]
NoMsg == Msg(0, 0, 0)

\* ============================================================ SystemHook
\* faulty variant: the assertion of line 274 is missing
EnterPrecondition_Missing(t) == TRUE

\* line 274: assert key not in self._HOOKS
EnterPrecondition(t) == HOOKS[t] = None

\* line 277: self._HOOKS[key] = self
Register(h, t) == [HOOKS EXCEPT ![t] = h]

\* lines 278-282: self._hook = SetWindowsHookEx(...). The ctypes call returns
\* an int: a handle, or 0 when the OS refuses; it raises (ctypes.ArgumentError)
\* when an argument does not convert, e.g. hook_id None, the default of
\* ListenerMixin._EVENTS.
InstallOutcomes == {"handle", "null", "raise"}
Handle(h, outcome) == IF outcome = "handle" THEN h ELSE "0"

\* SystemHook.__enter__ called on thread t for hook object h
Enter(h, t, outcome) ==
    /\ enterThread' = [enterThread EXCEPT ![h] = t]
    /\ IF ~EnterPrecondition(t)
       THEN \* AssertionError before anything is changed
            /\ enterResult' = [enterResult EXCEPT ![h] = "assert"]
            /\ UNCHANGED <<HOOKS, hookHandle, native>>
       ELSE /\ HOOKS' = Register(h, t)
            /\ IF outcome = "raise"
               THEN /\ enterResult' = [enterResult EXCEPT ![h] = "raise"]
                    /\ UNCHANGED <<hookHandle, native>>
               ELSE /\ enterResult' = [enterResult EXCEPT ![h] = "ok"]
                    /\ hookHandle' = [hookHandle EXCEPT ![h] = Handle(h, outcome)]
                    /\ native' = IF outcome = "handle" THEN native \cup {h} ELSE native

\* line 290: if self._hook is not None
ExitReleases(h) == hookHandle[h] # None

\* SystemHook.__exit__ called on thread t for hook object h. Its exception
\* arguments are not read: the block ending normally and the block raising
\* run the same code. Line 288 asserts the key is registered.
Exit(h, t) ==
    IF HOOKS[t] = None
    THEN UNCHANGED <<HOOKS, hookHandle, native, unhooks, released>>
    ELSE IF ExitReleases(h)
         THEN /\ native' = native \ {h}
              /\ unhooks' = [unhooks EXCEPT ![h] = @ + 1]
              /\ HOOKS' = [HOOKS EXCEPT ![t] = None]
              /\ released' = [released EXCEPT ![h] = @ + 1]
              /\ UNCHANGED hookHandle
         ELSE UNCHANGED <<HOOKS, hookHandle, native, unhooks, released>>

\* SystemHook._handler on thread t, where calling self.on_hook ends as
\* `onhook`: "normal", "suppress" (SuppressException) or "error" (anything
\* else). ret is "STOP" for the literal 1, "NEXT" for the value of
\* CallNextHookEx, "NONE" when the function falls off its end; escaped says
\* whether an exception left the callback.
OnHookOutcomes == {"normal", "suppress", "error"}

\* faulty variant: no bare except clause (lines 307-309), an ordinary error escapes
Handler_NoCatchAll(t, onhook) ==
    IF HOOKS[t] # None
    THEN IF onhook = "suppress"
         THEN [onhook |-> onhook, ret |-> "STOP", escaped |-> FALSE]
         ELSE IF onhook = "error"
              THEN [onhook |-> onhook, ret |-> "NONE", escaped |-> TRUE]
              ELSE [onhook |-> onhook, ret |-> "NEXT", escaped |-> FALSE]
    ELSE [onhook |-> onhook, ret |-> "NONE", escaped |-> FALSE]

\* faulty variant: one except clause for every exception, returning 1
Handler_ErrorSuppresses(t, onhook) ==
    IF HOOKS[t] # None
    THEN IF onhook \in {"suppress", "error"}
         THEN [onhook |-> onhook, ret |-> "STOP", escaped |-> FALSE]
         ELSE [onhook |-> onhook, ret |-> "NEXT", escaped |-> FALSE]
    ELSE [onhook |-> onhook, ret |-> "NONE", escaped |-> FALSE]

Handler(t, onhook) ==
    LET self == HOOKS[t] IN
    IF self # None
    THEN IF onhook = "suppress"
         THEN [onhook |-> onhook, ret |-> "STOP", escaped |-> FALSE]
         ELSE [onhook |-> onhook, ret |-> "NEXT", escaped |-> FALSE]
    ELSE [onhook |-> onhook, ret |-> "NONE", escaped |-> FALSE]

\* the OS calls the callback on the thread that installed a live native hook
CallbackEnabled(t) == \E h \in native : enterThread[h] = t


\* ============================================================ MessageLoop
\* MessageLoop.post (line 229): PostThreadMessage(self._threadid, ...). The
\* first argument is declared DWORD (line 161): None does not convert and the
\* ctypes call raises ArgumentError.
PostRaises == threadid = None

\* PostThreadMessage appends to the target thread's queue; it fails, and the
\* message is dropped, when the thread has no message queue yet. `queue` is
\* the queue of the run thread: a message for another thread does not reach it.
Posted(q, m) == IF queueCreated /\ threadid = RunThread THEN Append(q, m) ELSE q

\* faulty variant: the comparison with WM_STOP is >= instead of ==
IterBreaks_Geq(m) == m.message >= WM_STOP

\* line 187: the retrieved message ends the iteration
IterBreaks(m) == m.message = WM_STOP

\* ============================================================ run thread
\* faulty variant: _run goes on to install the hook without calling start
RunCreate_NoStart ==
    /\ rpc = "idle"
    /\ loopExists' = TRUE
    /\ threadid' = None
    /\ loopThread' = None
    /\ event' = FALSE
    /\ rpc' = IF client = "listener" THEN "hook_enter" ELSE "abandoned"
    /\ UNCHANGED <<cfgv, keyv, misv, histv, queueCreated, queue, cur, ended, running,
                   pending, stopv, postv, yielded, nevents, hvars>>

\* line 344: self._message_loop = MessageLoop()   (__init__, lines 168-171).
\* A bare client constructs the loop and never calls start.
RunCreate ==
    /\ rpc = "idle"
    /\ loopExists' = TRUE
    /\ threadid' = None
    /\ loopThread' = None
    /\ event' = FALSE
    /\ rpc' = IF client = "listener" THEN "start_bind" ELSE "abandoned"
    /\ UNCHANGED <<cfgv, keyv, misv, histv, queueCreated, queue, cur, ended, running, pending, stopv,
                   postv, yielded, nevents, hvars>>

\* MessageLoop.start, lines 202-203
RunStartBind ==
    /\ rpc = "start_bind"
    /\ threadid' = RunThread
    /\ loopThread' = RunThread
    /\ rpc' = "start_peek"
    /\ UNCHANGED <<cfgv, keyv, misv, histv, loopExists, event, queueCreated, queue, cur, ended, running,
                   pending, stopv, postv, yielded, nevents, hvars>>

\* MessageLoop.start, lines 206-208: PeekMessage makes the OS create the queue
RunStartPeek ==
    /\ rpc = "start_peek"
    /\ queueCreated' = TRUE
    /\ rpc' = "start_set"
    /\ UNCHANGED <<cfgv, keyv, misv, histv, loopExists, threadid, loopThread, event, queue, cur,
                   ended, running, pending, stopv, postv, yielded, nevents, hvars>>

\* faulty variant: start returns without setting the event
RunStartSet_NoSignal ==
    /\ rpc = "start_set"
    /\ rpc' = "hook_enter"
    /\ UNCHANGED <<cfgv, keyv, misv, histv, loopv, queue, cur, ended, running, pending, stopv,
                   postv, yielded, nevents, hvars>>

\* MessageLoop.start, line 211: self._event.set()
RunStartSet ==
    /\ rpc = "start_set"
    /\ event' = TRUE
    /\ rpc' = "hook_enter"
    /\ UNCHANGED <<cfgv, keyv, misv, histv, loopExists, threadid, loopThread, queueCreated, queue,
                   cur, ended, running, pending, stopv, postv, yielded, nevents, hvars>>

\* lines 350, 361-363: try ... except: pass. Whatever leaves the with
\* statement is caught, and _run returns normally.
RunEnds == "returned"

\* line 351: with SystemHook(self._EVENTS, self._handler). When __enter__
\* raises, __exit__ is not called and the except clause of line 361 ends _run.
RunHookEnter(outcome) ==
    /\ rpc = "hook_enter"
    /\ enterResult[RunHook] = "none"
    /\ Enter(RunHook, RunThread, outcome)
    /\ rpc' = IF enterResult'[RunHook] = "ok" THEN "iter_begin" ELSE "done"
    /\ runResult' = IF enterResult'[RunHook] = "ok" THEN runResult ELSE RunEnds
    /\ UNCHANGED <<cfgv, keyv, misv, dlog, elog, loopv, queue, cur, ended, running, pending, stopv, postv,
                   yielded, nevents, unhooks, released, withStack, exited, hlog>>

\* line 353 calling __iter__, line 179: assert self._threadid is not None
RunIterBegin ==
    /\ rpc = "iter_begin"
    /\ IF threadid # None
       THEN rpc' = "getmsg" /\ UNCHANGED pending
       ELSE rpc' = "hook_exit" /\ pending' = TRUE
    /\ UNCHANGED <<cfgv, keyv, misv, histv, loopv, queue, cur, ended, running, stopv, postv, yielded,
                   nevents, hvars>>

\* lines 183-190: GetMessage blocks until the queue holds a message; WM_STOP
\* breaks, any other message is yielded to the loop body
IterGetMessage ==
    /\ rpc = "getmsg"
    /\ queue # <<>>
    /\ queue' = Tail(queue)
    /\ cur' = Head(queue)
    /\ IF IterBreaks(Head(queue))
       THEN /\ rpc' = "iter_finally"
            /\ ended' = "stop"
            /\ UNCHANGED yielded
       ELSE /\ rpc' = "body"
            /\ yielded' = Append(yielded, Head(queue))
            /\ UNCHANGED ended
    /\ UNCHANGED <<cfgv, keyv, misv, histv, loopv, running, pending, stopv, postv, nevents, hvars>>

\* lines 186-188: GetMessage returns r <= 0 (the wait failed)
IterWaitFail ==
    /\ rpc = "getmsg"
    /\ rpc' = "iter_finally"
    /\ ended' = "waitfail"
    /\ UNCHANGED <<cfgv, keyv, misv, histv, loopv, queue, cur, running, pending, stopv, postv,
                   yielded, nevents, hvars>>

\* faulty variant: the notification ids are not told from the ordinary one
Dispatch_NotifyAsProcess(m) ==
    IF m.message = WM_PROCESS \/ m.message \in WM_NOTIFICATIONS THEN "process"
    ELSE "nothing"

\* lines 354-360: the loop body for the yielded message. `outcome` is how the
\* device-specific _process / _on_notification ends when it is called.
Dispatch(m) ==
    IF m.message = WM_PROCESS THEN "process"
    ELSE IF m.message \in WM_NOTIFICATIONS THEN "notification"
    ELSE "nothing"

RunBody(outcome) ==
    /\ rpc = "body"
    /\ cur' = NoMsg
    /\ dlog' = Append(dlog, [msg |-> cur, running |-> running,
                             to |-> IF running THEN Dispatch(cur) ELSE "nothing",
                             outcome |-> outcome])
    /\ IF ~running
       THEN \* break: the generator is closed, its finally clause runs
            /\ outcome = "ok"
            /\ rpc' = "iter_finally"
            /\ ended' = "closed"
            /\ UNCHANGED pending
       ELSE IF Dispatch(cur) = "nothing"
            THEN outcome = "ok" /\ rpc' = "getmsg" /\ UNCHANGED <<pending, ended>>
            ELSE IF outcome = "ok"
                 THEN rpc' = "getmsg" /\ UNCHANGED <<pending, ended>>
                 ELSE rpc' = "iter_finally" /\ pending' = TRUE /\ ended' = "closed"
    /\ UNCHANGED <<cfgv, keyv, misv, elog, runResult, loopv, queue, running, stopv, postv, yielded, nevents,
                   hvars>>

\* lines 192-194: finally: self._threadid = None; self.thread = None
IterFinally ==
    /\ rpc = "iter_finally"
    /\ threadid' = None
    /\ loopThread' = None
    /\ rpc' = "hook_exit"
    /\ UNCHANGED <<cfgv, keyv, misv, histv, loopExists, event, queueCreated, queue, cur, ended, running,
                   pending, stopv, postv, yielded, nevents, hvars>>

\* the with block of line 351 ends: SystemHook.__exit__; an exception from
\* the body is then swallowed by the except clause of lines 361-363
RunHookExit ==
    /\ rpc = "hook_exit"
    /\ Exit(RunHook, RunThread)
    /\ exited' = [exited EXCEPT ![RunHook] = IF pending THEN "error" ELSE "normal"]
    /\ rpc' = "done"
    /\ runResult' = RunEnds
    /\ UNCHANGED <<cfgv, keyv, misv, dlog, elog, loopv, queue, cur, ended, running, pending,
                   stopv, postv, yielded, nevents, enterResult, enterThread,
                   withStack, hlog>>

\* ============================================================ hook callback
\* ListenerMixin._handler, lines 381-389, as the on_hook of the listener's
\* hook: `conv` is what _convert does ("triple", "none", or "unsupported" for
\* NotImplementedError), `direct` how _handle ends when it is called.
\* faulty variant: the suppression check comes before the post
ListenerPosts_AfterSuppress(conv) == conv = "triple" /\ ~PostRaises /\ ~suppress

\* lines 382-384: a converted triple is posted, before the suppression check
\* of line 388; the post returns unless PostThreadMessage's argument fails
ListenerPosts(conv) == conv = "triple" /\ ~PostRaises

ListenerOnHook(conv, direct) ==
    IF conv = "triple" /\ PostRaises THEN "error"
    ELSE IF conv = "unsupported" /\ direct = "raise" THEN "error"
    ELSE IF suppress THEN "suppress"
    ELSE "normal"

\* the OS delivers an input event: SystemHook._handler runs on the run thread
\* while it waits in GetMessage
HookEvent(conv, direct) ==
    /\ rpc = "getmsg"
    /\ CallbackEnabled(RunThread)
    /\ nevents < MaxEvents
    /\ conv # "unsupported" => direct = "ok"
    /\ nevents' = nevents + 1
    /\ queue' = IF ListenerPosts(conv)
                THEN Posted(queue, Msg(WM_PROCESS, 2, nevents + 1))
                ELSE queue
    /\ hlog' = Append(hlog, Handler(RunThread, ListenerOnHook(conv, direct)))
    /\ elog' = Append(elog, [conv |-> conv, direct |-> direct,
                             bound |-> threadid = RunThread,
                             posted |-> ListenerPosts(conv),
                             result |-> ListenerOnHook(conv, direct)])
    /\ UNCHANGED <<cfgv, keyv, misv, dlog, runResult, rpc, loopv, cur, ended, running, pending, stopv, postv,
                   yielded, HOOKS, hookHandle, native, enterResult, enterThread,
                   unhooks, released, withStack, exited>>

\* ============================================================ stopping threads
\* faulty variant: stop does not wait for the event
WaitReturns_NoWait == TRUE

\* line 216: self._event.wait() returns once the event is set
WaitReturns == event

\* The listener's stop (AbstractListener.stop) clears the running flag and
\* calls _stop_platform; a bare client calls MessageLoop.stop on its loop.
ListenerStop(s) ==
    /\ spc[s] \in {"idle", "returned", "raised"}
    /\ stops < MaxStops
    /\ stops' = stops + 1
    /\ early' = early \ {s}
    /\ spc' = [spc EXCEPT ![s] = "lookup"]
    /\ IF client = "listener"
       THEN running' = FALSE
       ELSE loopExists /\ UNCHANGED running
    /\ UNCHANGED <<cfgv, keyv, misv, histv, rpc, loopv, queue, cur, ended, pending, stopPosts, postv,
                   yielded, nevents, hvars>>

\* lines 367-371: self._message_loop.stop(), AttributeError swallowed
StopPlatform(s) ==
    /\ spc[s] = "lookup"
    /\ spc' = [spc EXCEPT ![s] = IF loopExists THEN "wait" ELSE "returned"]
    /\ early' = IF loopExists /\ ~WaitReturns THEN early \cup {s} ELSE early
    /\ UNCHANGED <<cfgv, keyv, misv, histv, rpc, loopv, queue, cur, ended, running, pending, stops,
                   stopPosts, postv, yielded, nevents, hvars>>

StopWait(s) ==
    /\ spc[s] = "wait"
    /\ WaitReturns
    /\ spc' = [spc EXCEPT ![s] = "check"]
    /\ UNCHANGED <<cfgv, keyv, misv, histv, rpc, loopv, queue, cur, ended, running, pending, stops, early,
                   stopPosts, postv, yielded, nevents, hvars>>

\* line 217: if self._threadid:
StopCheck(s) ==
    /\ spc[s] = "check"
    /\ spc' = [spc EXCEPT ![s] = IF threadid # None THEN "post" ELSE "returned"]
    /\ UNCHANGED <<cfgv, keyv, misv, histv, rpc, loopv, queue, cur, ended, running, pending, stops, early,
                   stopPosts, postv, yielded, nevents, hvars>>

\* line 218: self.post(self.WM_STOP, 0, 0), which reads self._threadid again
StopPost(s) ==
    /\ spc[s] = "post"
    /\ IF PostRaises
       THEN /\ spc' = [spc EXCEPT ![s] = "raised"]
            /\ UNCHANGED <<queue, stopPosts>>
       ELSE /\ spc' = [spc EXCEPT ![s] = "returned"]
            /\ queue' = Posted(queue, Msg(WM_STOP, 0, 0))
            /\ stopPosts' = stopPosts + 1
    /\ UNCHANGED <<cfgv, keyv, misv, histv, rpc, loopv, cur, ended, running, pending, stops, early, postv,
                   yielded, nevents, hvars>>

\* ============================================================ posting thread
\* the ids the external thread posts (the hook callback posts WM_PROCESS)
PostIds == {WM_NOTIFY, WM_OTHER}

\* MessageLoop.post(id, 1, k) called by an external thread for its k-th message
PosterPost(id) ==
    /\ loopExists
    /\ nposts < MaxPosts
    /\ nposts' = nposts + 1
    /\ IF PostRaises
       THEN /\ posterRaised' = TRUE
            /\ UNCHANGED <<queue, sent>>
       ELSE /\ posterRaised' = FALSE
            /\ queue' = Posted(queue, Msg(id, 1, nposts + 1))
            /\ sent' = IF event THEN Append(sent, Msg(id, 1, nposts + 1)) ELSE sent
    /\ UNCHANGED <<cfgv, keyv, misv, histv, rpc, loopv, cur, ended, running, pending, stopv, yielded,
                   nevents, hvars>>

\* ============================================================ KeyTranslator
\* the modifier states, as the tuples <<shift, ctrl, alt>>, in the order of
\* itertools.product((False, True), (False, True), (False, True)), line 523
ModOrder ==
    << <<FALSE, FALSE, FALSE>>, <<FALSE, FALSE, TRUE>>,
       <<FALSE, TRUE, FALSE>>,  <<FALSE, TRUE, TRUE>>,
       <<TRUE, FALSE, FALSE>>,  <<TRUE, FALSE, TRUE>>,
       <<TRUE, TRUE, FALSE>>,   <<TRUE, TRUE, TRUE>> >>
Mods == {ModOrder[i] : i \in 1..Len(ModOrder)}
\* line 498: (False, False, False)
NoMods == <<FALSE, FALSE, FALSE>>

\* line 516: state = (ctypes.c_ubyte * 255)(). Its length, 255, is the
\* highest scan code: one less than the number of scan codes 0..255. The
\* build takes len(state) as the number of scan codes (lines 521, 525).
StateLen == MaxScan
BuiltScans == 0..(StateLen - 1)

\* The keyboard layouts the OS may have active, each the list of the virtual
\* keys of scan codes 0, 1, 2 (a scan code beyond it has no key):
\*   plain   no dead key;
\*   accent  a dead key; the decimal key gives a character in every
\*           modifier state;
\*   altgr   a dead key; the decimal key gives no character while ctrl is
\*           held (a key table with the plain and shift columns only).
Layouts == {"plain", "accent", "altgr"}
KeysOf(l) ==
    CASE l = "plain"  -> <<"none", "a", "decimal">>
      [] l = "accent" -> <<"none", "acute", "a">>
      [] OTHER        -> <<"none", "acute", "a">>
\* win32_vks.DECIMAL
VK_DECIMAL == "decimal"
\* the virtual keys translate is called with
VirtualKeys == {"a", "acute", "decimal"}

\* _to_vk, lines 567-577: MapVirtualKeyEx(scan, MAPVK_VSC_TO_VK, layout)
ToVk(scan, l) ==
    IF scan + 1 <= Len(KeysOf(l)) THEN KeysOf(l)[scan + 1] ELSE "none"

\* _to_scan, lines 555-565: MapVirtualKeyEx(vk, MAPVK_VK_TO_VSC, layout),
\* which is 0 when the layout has no such key
ToScan(vk, l) ==
    IF \E i \in 1..Len(KeysOf(l)) : KeysOf(l)[i] = vk
    THEN (CHOOSE i \in 1..Len(KeysOf(l)) : KeysOf(l)[i] = vk) - 1
    ELSE 0

\* what a key gives under a layout and a modifier state: "none", "char" or
\* "dead"
Kind(l, m, vk) ==
    IF vk = "none" THEN "none"
    ELSE IF vk = "acute" THEN (IF l = "plain" THEN "none" ELSE "dead")
    ELSE IF vk = "decimal" THEN (IF l = "altgr" /\ m[2] THEN "none" ELSE "char")
    ELSE "char"

\* a character: the key and modifier state that gave it under a layout, and
\* the dead key pending when it was translated ("" when none)
Ch(l, vk, m, after) == [layout |-> l, key |-> vk, mods |-> m, after |-> after]
\* Python's None in the place of a character
NoChar == Ch("", "", NoMods, "")

\* ToUnicodeEx as called at lines 537-539 and 549-551, with the keyboard
\* state buffer holding the modifiers m: the count it returns, the first
\* character it writes to out, and the pending dead key it leaves. A key
\* that gives no character returns 0 and leaves the pending dead key as it
\* is; a dead key with nothing pending returns -1 and becomes pending; any
\* other translation consumes the pending dead key, which changes the
\* characters written.
ToUnicodeEx(l, m, vk, pend) ==
    LET kind == Kind(l, m, vk) IN
    IF kind = "none" THEN [count |-> 0, ch |-> NoChar, pend |-> pend]
    ELSE IF pend # ""
         THEN [count |-> IF kind = "dead" THEN 2 ELSE 1,
               ch |-> Ch(l, vk, m, pend), pend |-> ""]
         ELSE IF kind = "dead"
              THEN [count |-> -1, ch |-> Ch(l, vk, m, ""), pend |-> vk]
              ELSE [count |-> 1, ch |-> Ch(l, vk, m, ""), pend |-> ""]

\* lines 525-526: current = [(None, False)] * len(state), for each of the
\* modifier states
EmptyData == [m \in Mods |-> [scan \in BuiltScans |-> <<NoChar, FALSE>>]]

\* lines 535-551, the inner loop from `scan` on under the modifier state m:
\* translate the key, cache the result when the count is not 0, and flush
\* with VK.DECIMAL when the key is dead. acc.data is layout_data, acc.pend
\* the OS's pending dead key; acc.clean, acc.dead and acc.flushes record
\* whether every translation so far began with no dead key pending, and how
\* many dead keys and flush calls there were.
RECURSIVE TranslateFrom(_, _, _, _)
TranslateFrom(l, m, scan, acc) ==
    IF scan \notin DOMAIN acc.data[m] THEN acc
    ELSE LET vk == ToVk(scan, l)
             r == ToUnicodeEx(l, m, vk, acc.pend)
             is_dead == r.count < 0
             cached == IF r.count # 0
                       THEN [acc.data EXCEPT ![m][scan] = <<r.ch, is_dead>>]
                       ELSE acc.data
             flush == r.count # 0 /\ is_dead
             after == IF flush
                      THEN ToUnicodeEx(l, m, VK_DECIMAL, r.pend).pend
                      ELSE r.pend
         IN  TranslateFrom(l, m, scan + 1,
                 [data |-> cached, pend |-> after,
                  clean |-> acc.clean /\ acc.pend = "",
                  dead |-> acc.dead + (IF is_dead THEN 1 ELSE 0),
                  flushes |-> acc.flushes + (IF flush THEN 1 ELSE 0)])

\* lines 523-551, the outer loop from the i-th modifier state on
RECURSIVE GenerateFrom(_, _, _)
GenerateFrom(l, i, acc) ==
    IF i > Len(ModOrder) THEN acc
    ELSE GenerateFrom(l, i + 1, TranslateFrom(l, ModOrder[i], 0, acc))

\* _generate_layout, lines 514-553, with `l` the layout GetKeyboardLayout
\* returns and `pend` the pending dead key the OS holds when it is called
GenerateLayout(l, pend) ==
    GenerateFrom(l, 1, [data |-> EmptyData, pend |-> pend, clean |-> TRUE,
                        dead |-> 0, flushes |-> 0])

\* Python's IndexError, in the place of the result of a call
IndexError == "IndexError"

\* line 498: self._layout_data[(False, False, False)][scan][0]
CharFromScan(data, scan) ==
    IF scan \in DOMAIN data[NoMods]
    THEN [raised |-> "", ch |-> data[NoMods][scan][1]]
    ELSE [raised |-> IndexError, ch |-> NoChar]

\* lines 477-483: character, is_dead = layout_data[scan], and the result
Lookup(row, scan, vk) ==
    IF scan \in DOMAIN row
    THEN [raised |-> "", char |-> row[scan][1], is_dead |-> row[scan][2],
          vk |-> vk, scan |-> scan]
    ELSE [raised |-> IndexError, char |-> NoChar, is_dead |-> FALSE,
          vk |-> vk, scan |-> scan]

\* update_layout and __call__ when no call is in progress
NoUpdate == [pc |-> "idle", layout |-> "", data |-> <<>>]
NoTranslate == [pc |-> "idle", vk |-> "", mods |-> NoMods, row |-> <<>>,
                layout |-> "", scan |-> 0,
                result |-> [raised |-> "", char |-> NoChar, is_dead |-> FALSE,
                            vk |-> "", scan |-> 0]]

\* no KeyTranslator has been constructed: its attributes do not exist
Constructed == layout # ""
KeyInit ==
    /\ osLayout = "plain"
    /\ held = NoMods
    /\ deadPending = ""
    /\ layout = ""
    /\ layoutData = <<>>
    /\ upd = NoUpdate
    /\ trans = NoTranslate
    /\ builds = {}
    /\ lastBuild = [clean |-> TRUE, dead |-> 0, flushes |-> 0]
    /\ cfs = [called |-> FALSE, scan |-> 0, held |-> NoMods, row |-> <<>>,
              result |-> [raised |-> "", ch |-> NoChar]]

\* ============================================================ specification
HookInit ==
    /\ HOOKS = [t \in Threads |-> None]
    /\ hookHandle = [h \in Hooks |-> None]
    /\ native = {}
    /\ enterResult = [h \in Hooks |-> "none"]
    /\ enterThread = [h \in Hooks |-> None]
    /\ unhooks = [h \in Hooks |-> 0]
    /\ released = [h \in Hooks |-> 0]
    /\ withStack = [t \in Threads |-> <<>>]
    /\ exited = [h \in Hooks |-> "no"]
    /\ hlog = <<>>

ListenerInit ==
    /\ rpc = "idle"
    /\ loopExists = FALSE
    /\ threadid = None
    /\ loopThread = None
    /\ event = FALSE
    /\ queueCreated = FALSE
    /\ queue = <<>>
    /\ cur = NoMsg
    /\ ended = "no"
    /\ running = TRUE
    /\ pending = FALSE
    /\ spc = [s \in Stoppers |-> "idle"]
    /\ stops = 0
    /\ early = {}
    /\ stopPosts = 0
    /\ sent = <<>>
    /\ posterRaised = FALSE
    /\ nposts = 0
    /\ yielded = <<>>
    /\ nevents = 0
    /\ starts = 0
    /\ iters = 0
    /\ callResult = "none"
    /\ dlog = <<>>
    /\ elog = <<>>
    /\ runResult = "none"

Init ==
    /\ KeyInit
    /\ client \in {"listener", "bare"}
    /\ suppress \in BOOLEAN
    /\ ListenerInit
    /\ HookInit

RunStep ==
    \/ RunCreate
    \/ RunStartBind
    \/ RunStartPeek
    \/ RunStartSet
    \/ \E outcome \in InstallOutcomes : RunHookEnter(outcome)
    \/ RunIterBegin
    \/ IterGetMessage
    \/ \E outcome \in {"ok", "raise"} : RunBody(outcome)
    \/ IterFinally
    \/ RunHookExit

StopStep(s) ==
    \/ StopPlatform(s)
    \/ StopWait(s)
    \/ StopCheck(s)
    \/ StopPost(s)

EnvStep ==
    \/ IterWaitFail
    \/ \E conv \in {"triple", "none", "unsupported"}, direct \in {"ok", "raise"} :
          HookEvent(conv, direct)

\* The listener with its stopping threads and the OS delivering input events.
Next ==
    \/ RunStep
    \/ \E s \in Stoppers : StopStep(s)
    \/ \E s \in Stoppers : ListenerStop(s)
    \/ EnvStep

Spec == Init /\ [][Next]_vars

\* The listener with an external thread posting to its loop, where one
\* thread calls stop once and the OS delivers one input event.
PostStopper == "s1"
NextPost ==
    \/ RunStep
    \/ StopStep(PostStopper)
    \/ stops = 0 /\ ListenerStop(PostStopper)
    \/ IterWaitFail
    \/ \E conv \in {"triple", "none", "unsupported"}, direct \in {"ok", "raise"} :
          nevents = 0 /\ HookEvent(conv, direct)
    \/ \E id \in PostIds : PosterPost(id)

SpecPost == Init /\ [][NextPost]_vars

\* Weak fairness on the steps of the program's own threads: a thread that
\* can take its next step takes it. Nothing is assumed of the environment:
\* input events, wait failures and further stop calls may never come.
Fairness ==
    /\ WF_vars(RunStep)
    /\ \A s \in Stoppers : WF_vars(StopStep(s))

\* The listener with its stopping threads, where the OS delivers at most one
\* input event.
NextLive ==
    \/ RunStep
    \/ \E s \in Stoppers : StopStep(s)
    \/ \E s \in Stoppers : ListenerStop(s)
    \/ IterWaitFail
    \/ \E conv \in {"triple", "none", "unsupported"}, direct \in {"ok", "raise"} :
          nevents = 0 /\ HookEvent(conv, direct)

SpecLive == Init /\ [][NextLive]_vars /\ Fairness

\* ============================================================ MessageLoop used directly
\* A client that constructs a MessageLoop and calls its methods itself, in any
\* order: the run thread constructs, starts and iterates, another thread
\* may call start as well, threads post and stop.
LoopCreate ==
    /\ rpc = "idle"
    /\ loopExists' = TRUE
    /\ threadid' = None
    /\ loopThread' = None
    /\ event' = FALSE
    /\ rpc' = "free"
    /\ UNCHANGED <<cfgv, keyv, misv, histv, queueCreated, queue, cur, ended, running, pending,
                   stopv, postv, yielded, nevents, hvars>>

\* MessageLoop.start called on thread t, lines 202-211: it has no
\* precondition; it binds the loop to t, creates t's queue and sets the event
LoopStart(t) ==
    /\ loopExists
    /\ t = RunThread => rpc = "free"
    /\ starts < MaxStarts
    /\ starts' = starts + 1
    /\ callResult' = "ok"
    /\ threadid' = t
    /\ loopThread' = t
    /\ queueCreated' = (queueCreated \/ t = RunThread)
    /\ event' = TRUE
    /\ UNCHANGED <<cfgv, keyv, histv, rpc, loopExists, queue, cur, ended, running, pending,
                   stopv, postv, yielded, nevents, iters, hvars>>

\* `for msg in loop` on the run thread: the generator's first step is the
\* assertion of line 179
LoopIterate ==
    /\ rpc = "free"
    /\ iters < MaxIters
    /\ iters' = iters + 1
    /\ IF threadid # None
       THEN rpc' = "getmsg" /\ callResult' = "ok" /\ ended' = "no"
       ELSE rpc' = "free" /\ callResult' = "error" /\ UNCHANGED ended
    /\ UNCHANGED <<cfgv, keyv, histv, loopv, queue, cur, running, pending, stopv, postv,
                   yielded, nevents, starts, hvars>>

\* the client's loop body does nothing with the yielded message
LoopBody ==
    /\ rpc = "body"
    /\ cur' = NoMsg
    /\ rpc' = "getmsg"
    /\ UNCHANGED <<cfgv, keyv, misv, histv, loopv, queue, ended, running, pending, stopv, postv,
                   yielded, nevents, hvars>>

\* lines 192-194, then the client's for statement ends
LoopIterEnd ==
    /\ rpc = "iter_finally"
    /\ threadid' = None
    /\ loopThread' = None
    /\ rpc' = "free"
    /\ UNCHANGED <<cfgv, keyv, misv, histv, loopExists, event, queueCreated, queue, cur, ended,
                   running, pending, stopv, postv, yielded, nevents, hvars>>

InitLoop == Init /\ client = "bare" /\ ~suppress

NextLoop ==
    \/ LoopCreate
    \/ \E t \in Threads : LoopStart(t)
    \/ LoopIterate
    \/ IterGetMessage
    \/ IterWaitFail
    \/ LoopBody
    \/ LoopIterEnd
    \/ StopStep(PostStopper)
    \/ ListenerStop(PostStopper)
    \/ \E id \in PostIds : PosterPost(id)

SpecLoop == InitLoop /\ [][NextLoop]_vars

\* ============================================================ KeyTranslator in use
\* One KeyTranslator: a thread calls update_layout, another calls the
\* translator and char_from_scan, the user switches the keyboard layout and
\* presses and releases modifiers.
nonkeyv == <<cfgv, rpc, loopv, queue, cur, ended, running, pending, stopv, postv,
             yielded, nevents, misv, histv, hvars>>

\* the user switches the active keyboard layout
LayoutChange(l) ==
    /\ osLayout # l
    /\ osLayout' = l
    /\ UNCHANGED <<held, deadPending, layout, layoutData, upd, trans, builds,
                   lastBuild, cfs, nonkeyv>>

\* the modifier states the user holds
HeldStates == {NoMods, <<TRUE, FALSE, FALSE>>, <<FALSE, TRUE, TRUE>>}

\* the user presses or releases modifiers
ModifierChange(m) ==
    /\ held # m
    /\ held' = m
    /\ UNCHANGED <<osLayout, deadPending, layout, layoutData, upd, trans, builds,
                   lastBuild, cfs, nonkeyv>>

\* KeyTranslator(), lines 459-460: __init__ calls update_layout; no other
\* thread has the object before it returns
Construct ==
    /\ ~Constructed
    /\ LET g == GenerateLayout(osLayout, deadPending) IN
          /\ layout' = osLayout
          /\ layoutData' = g.data
          /\ deadPending' = g.pend
          /\ builds' = builds \cup {[layout |-> osLayout, data |-> g.data]}
          /\ lastBuild' = [clean |-> g.clean, dead |-> g.dead, flushes |-> g.flushes]
    /\ UNCHANGED <<osLayout, held, upd, trans, cfs, nonkeyv>>

\* line 488, right-hand side: self._generate_layout(), for the layout active
\* when it is called
UpdGenerate ==
    /\ Constructed
    /\ upd.pc = "idle"
    /\ LET g == GenerateLayout(osLayout, deadPending) IN
          /\ upd' = [pc |-> "store_layout", layout |-> osLayout, data |-> g.data]
          /\ deadPending' = g.pend
          /\ builds' = builds \cup {[layout |-> osLayout, data |-> g.data]}
          /\ lastBuild' = [clean |-> g.clean, dead |-> g.dead, flushes |-> g.flushes]
    /\ UNCHANGED <<osLayout, held, layout, layoutData, trans, cfs, nonkeyv>>

\* line 488, first target of the assignment: self._layout = ...
UpdStoreLayout ==
    /\ upd.pc = "store_layout"
    /\ layout' = upd.layout
    /\ upd' = [upd EXCEPT !.pc = "store_data"]
    /\ UNCHANGED <<osLayout, held, deadPending, layoutData, trans, builds,
                   lastBuild, cfs, nonkeyv>>

\* line 488, second target: self._layout_data = ...
UpdStoreData ==
    /\ upd.pc = "store_data"
    /\ layoutData' = upd.data
    /\ upd' = NoUpdate
    /\ UNCHANGED <<osLayout, held, deadPending, layout, trans, builds, lastBuild,
                   cfs, nonkeyv>>

\* line 475: layout_data = self._layout_data[self._modifier_state()]
TransReadData(vk) ==
    /\ Constructed
    /\ trans.pc = "idle"
    /\ trans' = [NoTranslate EXCEPT !.pc = "read_layout", !.vk = vk,
                                    !.mods = held, !.row = layoutData[held]]
    /\ UNCHANGED <<osLayout, held, deadPending, layout, layoutData, upd, builds,
                   lastBuild, cfs, nonkeyv>>

\* lines 476-477: scan = self._to_scan(vk, self._layout), and the lookup
TransReadLayout ==
    /\ trans.pc = "read_layout"
    /\ LET scan == ToScan(trans.vk, layout) IN
          trans' = [trans EXCEPT !.pc = "done", !.layout = layout, !.scan = scan,
                                 !.result = Lookup(trans.row, scan, trans.vk)]
    /\ UNCHANGED <<osLayout, held, deadPending, layout, layoutData, upd, builds,
                   lastBuild, cfs, nonkeyv>>

\* lines 479-483: the call returns
TransReturn ==
    /\ trans.pc = "done"
    /\ trans' = NoTranslate
    /\ UNCHANGED <<osLayout, held, deadPending, layout, layoutData, upd, builds,
                   lastBuild, cfs, nonkeyv>>

\* update_layout, lines 485-488, called while no other call is in progress
UpdateLayout ==
    /\ Constructed
    /\ upd.pc = "idle"
    /\ trans.pc = "idle"
    /\ LET g == GenerateLayout(osLayout, deadPending) IN
          /\ layout' = osLayout
          /\ layoutData' = g.data
          /\ deadPending' = g.pend
          /\ builds' = builds \cup {[layout |-> osLayout, data |-> g.data]}
          /\ lastBuild' = [clean |-> g.clean, dead |-> g.dead, flushes |-> g.flushes]
    /\ UNCHANGED <<osLayout, held, upd, trans, cfs, nonkeyv>>

\* char_from_scan(scan), lines 490-498
CharFromScanCall(scan) ==
    /\ Constructed
    /\ cfs' = [called |-> TRUE, scan |-> scan, held |-> held,
               row |-> layoutData[NoMods],
               result |-> CharFromScan(layoutData, scan)]
    /\ cfs' # cfs
    /\ UNCHANGED <<osLayout, held, deadPending, layout, layoutData, upd, trans,
                   builds, lastBuild, nonkeyv>>

InitKeys == Init /\ client = "listener" /\ ~suppress

\* The translator called on one thread while another calls update_layout.
NextKeys ==
    \/ Construct
    \/ \E l \in Layouts : LayoutChange(l)
    \/ \E m \in HeldStates : ModifierChange(m)
    \/ UpdGenerate
    \/ UpdStoreLayout
    \/ UpdStoreData
    \/ \E vk \in VirtualKeys : TransReadData(vk)
    \/ TransReadLayout
    \/ TransReturn

SpecKeys == InitKeys /\ [][NextKeys]_vars

\* The cache: update_layout and char_from_scan called one at a time.
NextCache ==
    \/ Construct
    \/ \E l \in Layouts : LayoutChange(l)
    \/ \E m \in HeldStates : ModifierChange(m)
    \/ UpdateLayout
    \/ \E scan \in 0..MaxScan : CharFromScanCall(scan)

SpecCache == InitKeys /\ [][NextCache]_vars

\* ============================================================ SystemHook alone
\* `with SystemHook(...)` entered on thread t with a fresh hook object h
HookEnter(h, t, outcome) ==
    /\ enterResult[h] = "none"
    /\ Enter(h, t, outcome)
    /\ withStack' = [withStack EXCEPT
                       ![t] = IF enterResult'[h] = "ok" THEN Append(@, h) ELSE @]
    /\ UNCHANGED <<lvars, unhooks, released, exited, hlog>>

\* the innermost `with` block of thread t ends, normally or by an error
\* raised in its body
HookExit(t, how) ==
    /\ withStack[t] # <<>>
    /\ LET h == withStack[t][Len(withStack[t])] IN
          /\ Exit(h, t)
          /\ exited' = [exited EXCEPT ![h] = how]
    /\ withStack' = [withStack EXCEPT ![t] = SubSeq(@, 1, Len(@) - 1)]
    /\ UNCHANGED <<lvars, enterResult, enterThread, hlog>>

\* the OS calls SystemHook._handler on thread t
HookCallback(t, onhook) ==
    /\ CallbackEnabled(t)
    /\ Len(hlog) < MaxEvents
    /\ hlog' = Append(hlog, Handler(t, onhook))
    /\ UNCHANGED <<lvars, HOOKS, hookHandle, native, enterResult, enterThread,
                   unhooks, released, withStack, exited>>

NextHook ==
    \/ \E h \in Hooks, t \in Threads, outcome \in InstallOutcomes :
          HookEnter(h, t, outcome)
    \/ \E t \in Threads, how \in {"normal", "error"} : HookExit(t, how)
    \/ \E t \in Threads, onhook \in OnHookOutcomes : HookCallback(t, onhook)

SpecHook == Init /\ [][NextHook]_vars

\* ============================================================ claims
InStop(s) == spc[s] \in {"lookup", "wait", "check", "post"}
StopEnded(s) == spc[s] \in {"returned", "raised"}

\* C1: a call to stop (MessageLoop.stop through _stop_platform) never ends
\* with an error, in any interleaving with start, the iteration and its end.
StopNeverRaises == \A s \in Stoppers : spc[s] # "raised"

\* a step of the program's own threads is possible
ProgramCanStep == ENABLED RunStep \/ \E s \in Stoppers : ENABLED StopStep(s)

\* C2: a call to stop never deadlocks, whenever it is made, also for a loop
\* that was constructed and whose start is never called: while a call is in
\* progress, the calling thread or the loop's owner can take a step.
StopNeverDeadlocks ==
    \A s \in Stoppers : InStop(s) => (ENABLED StopStep(s) \/ ENABLED RunStep)

\* C2 as a temporal property: every call to stop eventually ends.
StopAlwaysReturns == \A s \in Stoppers : InStop(s) ~> StopEnded(s)

\* C2, amended: every call to stop eventually ends provided start is called
\* on the loop, as _run does after constructing it.
StopReturnsOnceStarted ==
    \A s \in Stoppers : (client = "listener" /\ InStop(s)) ~> StopEnded(s)

\* C2 witness: a stop call of the listener that had to wait for start has ended
StopWaitedAndEnded ==
    \E s \in early : client = "listener" /\ StopEnded(s)

\* C3: once the listener's stop has returned, _run terminates also when no
\* further message or input event arrives: it is never left unfinished with
\* no step of the program's own threads possible.
RunNotStuckAfterStop ==
    (client = "listener" /\ \E s \in Stoppers : spc[s] = "returned")
        => (rpc = "done" \/ ProgramCanStep)

\* C3 as a temporal property: once the listener's stop has returned, _run
\* eventually terminates.
RunExitsAfterStop ==
    (client = "listener" /\ \E s \in Stoppers : spc[s] = "returned") ~> (rpc = "done")

\* C4: stop passes its wait, and WM_STOP is posted, only after start has
\* bound the loop to its thread, created the queue and set the event.
StartCompleted ==
    rpc \notin {"idle", "abandoned", "start_bind", "start_peek", "start_set"}
IsStop(m) == m.message = WM_STOP
StopPostsOnlyAfterStart ==
    /\ \A s \in Stoppers : spc[s] \in {"check", "post"} => StartCompleted
    /\ stopPosts > 0 => StartCompleted
    /\ SelectSeq(queue, IsStop) # <<>> => StartCompleted /\ stopPosts > 0

\* C4 witness: a stop call that reached the wait before the event was set
\* has posted WM_STOP, and the message is in the bound thread's queue
EarlyStopPosted ==
    \E s \in early : spc[s] = "returned" /\ stopPosts = 1 /\ queue = <<Msg(WM_STOP, 0, 0)>>

\* C5: __enter__ on a thread whose registry entry is taken ends with the
\* assertion error and changes nothing: registry, handles and native hooks
\* are as before.
DoubleInstallRejected ==
    [][\A h \in Hooks :
          (enterResult[h] = "none" /\ enterResult'[h] # "none"
             /\ HOOKS[enterThread'[h]] # None)
          => /\ enterResult'[h] = "assert"
             /\ HOOKS' = HOOKS
             /\ hookHandle' = hookHandle
             /\ native' = native]_vars

\* C5 witness: a second hook was refused on a thread while the first is live
SecondInstallRefused ==
    \E first \in Hooks, second \in Hooks :
        /\ first # second
        /\ enterResult[second] = "assert"
        /\ HOOKS[enterThread[second]] = first
        /\ first \in native
        /\ hookHandle[second] = None

\* C6: once no hook block is active on a thread (it ended normally, by an
\* error of its body, or the install returned no handle or failed), the
\* registry has no entry for the thread and no native hook of the thread is
\* installed; a block that ended released its registration exactly once.
ReleasedOnEveryExit ==
    /\ \A t \in Threads :
          withStack[t] = <<>> => HOOKS[t] = None /\ ~CallbackEnabled(t)
    /\ \A h \in Hooks : released[h] <= 1
    /\ \A h \in Hooks : exited[h] # "no" => released[h] = 1 /\ unhooks[h] = 1

\* C7: the run body is in the message-draining loop only with a live hook.
LoopOnlyWithLiveHook ==
    rpc \in {"iter_begin", "getmsg", "body"} => RunHook \in native

\* C8: every invocation of the hook callback returns a value and lets no
\* exception out, however on_hook ended.
CallbackAlwaysReturns ==
    \A i \in 1..Len(hlog) : hlog[i].ret \in {"STOP", "NEXT"} /\ ~hlog[i].escaped

\* C8 witness: the callback has handled an on_hook that raised an ordinary
\* error and one that raised the suppression signal
CallbackSawErrorAndSuppress ==
    /\ \E i \in 1..Len(hlog) : hlog[i].onhook = "error"
    /\ \E i \in 1..Len(hlog) : hlog[i].onhook = "suppress"

\* C9: the callback returns the stop-propagation code for exactly the events
\* during which the suppression signal was raised; for every other event it
\* returns what CallNextHookEx returned.
SuppressionPerEvent ==
    \A i \in 1..Len(hlog) :
        /\ hlog[i].ret = "STOP" <=> hlog[i].onhook = "suppress"
        /\ hlog[i].onhook # "suppress" => hlog[i].ret = "NEXT"

\* C9 witness: a suppressed event followed by an event that was passed on
SuppressedThenPassedOn ==
    /\ Len(hlog) >= 2
    /\ hlog[1].onhook = "suppress" /\ hlog[1].ret = "STOP"
    /\ hlog[2].onhook # "suppress" /\ hlog[2].ret = "NEXT"

\* C10: the messages the external thread posted to the started loop are
\* yielded in posting order, none twice; while the iteration has not ended,
\* each is either yielded already or still queued; and a message that ends
\* the iteration is the stop message.
InSent(m) == \E i \in 1..Len(sent) : sent[i] = m
IsPrefix(a, b) == Len(a) <= Len(b) /\ SubSeq(b, 1, Len(a)) = a
FifoDelivery ==
    /\ IsPrefix(SelectSeq(yielded, InSent), sent)
    /\ ended = "no" => sent = SelectSeq(yielded, InSent) \o SelectSeq(queue, InSent)
    /\ ended = "stop" => IsStop(cur)

\* C10 witness: p1, p2, p3 were all yielded, with a message of the hook
\* callback yielded among them
ThreeDeliveredInterleaved ==
    /\ Len(sent) = 3
    /\ SelectSeq(yielded, InSent) = sent
    /\ \E i \in 1..Len(yielded) :
          /\ yielded[i].wParam = 2
          /\ i < Len(yielded)

\* C11: a post made after the iteration has ended and cleared the bound
\* thread id is a no-op: it returns without raising and enqueues nothing.
PostAfterEndIsNoOp ==
    [][(nposts' = nposts + 1 /\ ended # "no" /\ threadid = None)
          => (~posterRaised' /\ queue' = queue)]_vars

\* C12: misuse of a MessageLoop fails with a precondition error: a second
\* call of start on the same loop fails, and iterating a loop that is not
\* bound (never started, or cleared by a finished iteration) fails, in both
\* cases without rebinding the loop or yielding a message.
MisuseFails ==
    [][/\ (starts' = starts + 1 /\ starts >= 1)
             => /\ callResult' = "error"
                /\ threadid' = threadid
                /\ loopThread' = loopThread
       /\ (iters' = iters + 1 /\ threadid = None)
             => /\ callResult' = "error"
                /\ threadid' = None
                /\ yielded' = yielded]_vars

\* C12, the part the code keeps: iterating an unbound loop fails at once,
\* binding nothing and yielding nothing.
UnboundIterationFails ==
    [][(iters' = iters + 1 /\ threadid = None)
          => /\ callResult' = "error"
             /\ rpc' = "free"
             /\ threadid' = None
             /\ yielded' = yielded]_vars

\* C16: an error raised by _process or _on_notification while the run body
\* dispatches a message propagates out of _run: when _run has ended after
\* such an error, it ended by raising.
DispatchErrorPropagates ==
    (rpc = "done" /\ pending) => runResult = "raised"

\* C17: every drained message with the id WM_PROCESS goes to the processor
\* and to nothing else, every message with a notification id goes to the
\* notification handler, every other message goes to neither, the stop
\* message is never handed to the body, and once the body has seen the
\* running flag cleared that message and all later ones are not dispatched.
DispatchRouting ==
    /\ Len(dlog) <= Len(yielded)
    /\ \A i \in 1..Len(yielded) : ~IsStop(yielded[i])
    /\ \A i \in 1..Len(dlog) :
          LET d == dlog[i] IN
          /\ d.msg = yielded[i]
          /\ d.to = "process" <=> (d.running /\ d.msg.message = WM_PROCESS)
          /\ d.to = "notification"
                <=> (d.running /\ d.msg.message \in WM_NOTIFICATIONS
                               /\ d.msg.message # WM_PROCESS)
          /\ d.to \in {"process", "notification", "nothing"}
          /\ ~d.running => /\ i = Len(dlog)
                           /\ Len(yielded) = Len(dlog)
                           /\ rpc \in {"iter_finally", "hook_exit", "done"}

\* C17 witness: the body has routed an ordinary message to the processor, a
\* notification to the notification handler and another message to neither,
\* and then left a drained message undispatched on seeing the flag cleared
RoutedEachKind ==
    /\ \E i \in 1..Len(dlog) : dlog[i].to = "process"
    /\ \E i \in 1..Len(dlog) : dlog[i].to = "notification"
    /\ \E i \in 1..Len(dlog) :
          dlog[i].running /\ dlog[i].to = "nothing" /\ dlog[i].msg.message = WM_OTHER
    /\ \E i \in 1..Len(dlog) : ~dlog[i].running /\ dlog[i].to = "nothing"

HookLiveImpliesLoopBound ==
    (RunHook \in native \/ HOOKS[RunThread] = RunHook) => threadid = RunThread

\* C20, amended: the hook is installed only after start has completed
\* (thread bound, queue created, event set); every invocation of the hook
\* callback finds the loop bound, so its post never fails; the registration
\* is live with the loop unbound only between the iteration's finally
\* clause and __exit__, where the thread id is cleared first.
CallbackFindsLoopBound ==
    /\ (RunHook \in native \/ HOOKS[RunThread] = RunHook)
          => /\ event /\ queueCreated
             /\ threadid = None => rpc = "hook_exit"
             /\ threadid # None => threadid = RunThread /\ loopThread = RunThread
    /\ rpc \in {"iter_begin", "getmsg", "body", "iter_finally"} => threadid = RunThread
    /\ \A i \in 1..Len(elog) : elog[i].bound /\ (elog[i].conv = "triple" => elog[i].posted)

\* C20 witness: the callback has posted to the bound loop, and the hook is
\* still installed after the iteration has cleared the thread id
LiveHookAfterUnbind ==
    /\ rpc = "hook_exit"
    /\ RunHook \in native
    /\ threadid = None
    /\ \E i \in 1..Len(elog) : elog[i].posted /\ elog[i].bound

\* C13: a translate call that runs while another thread calls update_layout
\* uses the layout identifier and the mapping of one and the same build,
\* fully the old one or fully the new one.
TranslateUsesOneBuild ==
    trans.pc = "done" =>
        \E b \in builds : b.layout = trans.layout /\ b.data[trans.mods] = trans.row

\* C14: for every scan code 0..MaxScan, char_from_scan returns the character
\* (or none) of the cache entry for no modifiers and that scan code, whatever
\* modifiers are held.
CharFromScanIsPlainEntry ==
    cfs.called =>
        /\ cfs.result.raised = ""
        /\ cfs.scan \in DOMAIN cfs.row
        /\ cfs.result.ch = cfs.row[cfs.scan][1]

\* C14, for the scan codes the build covers: char_from_scan returns the
\* character of the entry for no modifiers, whatever modifiers are held.
CharFromScanOfBuiltScan ==
    (cfs.called /\ cfs.scan \in BuiltScans) =>
        /\ cfs.result.raised = ""
        /\ cfs.result.ch = cfs.row[cfs.scan][1]

\* the entry a key gets when it is translated with no dead key pending
Isolated(l, m, vk) ==
    LET r == ToUnicodeEx(l, m, vk, "")
    IN  IF r.count # 0 THEN <<r.ch, r.count < 0>> ELSE <<NoChar, FALSE>>

\* C15: in a build every dead key is followed by one flush call, every
\* recorded translation starts with no dead key pending, and every cached
\* entry is what the key gives when no dead key was translated before it.
DeadKeysFlushed ==
    /\ lastBuild.flushes = lastBuild.dead
    /\ lastBuild.clean
    /\ \A b \in builds : \A m \in Mods : \A scan \in BuiltScans :
          b.data[m][scan] = Isolated(b.layout, m, ToVk(scan, b.layout))

\* C15, the part the code keeps: one flush call follows every dead key.
FlushCallAfterEveryDeadKey == lastBuild.flushes = lastBuild.dead

\* C19: after every build the cache has an entry for each of the 8 modifier
\* states and, within each, for every scan code 0..MaxScan; the entry of a
\* scan code that gives no character is (no character, not dead).
CacheCoversAllScans ==
    \A b \in builds :
        /\ Cardinality(DOMAIN b.data) = 8
        /\ \A m \in Mods :
              \A scan \in 0..MaxScan :
                  /\ scan \in DOMAIN b.data[m]
                  /\ Kind(b.layout, m, ToVk(scan, b.layout)) = "none"
                        => b.data[m][scan] = <<NoChar, FALSE>>

\* C19, for the scan codes the build covers: every modifier state has an
\* entry for each of them, (no character, not dead) when the key gives none.
CacheCoversBuiltScans ==
    \A b \in builds :
        /\ DOMAIN b.data = Mods
        /\ \A m \in Mods :
              /\ DOMAIN b.data[m] = BuiltScans
              /\ \A scan \in BuiltScans :
                    Kind(b.layout, m, ToVk(scan, b.layout)) = "none"
                        => b.data[m][scan] = <<NoChar, FALSE>>

====
